---- MODULE Spec2Model ----
(***************************************************************************)
(* MashOS time-adapter subsystem: the configuration registry of            *)
(* inputCore.ts (config, timeMap, disposers, mergeConfig,                   *)
(* resolveTimeConfig, rebuildTimeAdapters, MashOS.configure) and the       *)
(* adapters of timeService.ts (resolveNow, createTimeAdapter, start, stop, *)
(* subscribe, __dispose), together with the platform's interval timers.    *)
(***************************************************************************)
EXTENDS Integers, Sequences, FiniteSets, TLC

(***************************************************************************)
(* Bounds of the model.                                                    *)
(***************************************************************************)
\* the wall clock runs over 0..MaxWall (epoch milliseconds)
MaxWall == 1
\* number of MashOS.configure calls in one behaviour
MaxConfigures == 2
\* number of direct createTimeAdapter calls made by user code
MaxCreates == 1
\* number of subscribe calls in one behaviour of the adapters on their own
MaxSubscribes == 2
\* number of subscribe calls in one behaviour of the registry
MaxHeldSubscribes == 1

(***************************************************************************)
(* JavaScript values that a TimeConfig field can hold.                     *)
(*   k = "undefined" : the key is absent                                   *)
(*   k = "null"      : null                                                *)
(*   k = "date"      : a Date object whose time value is n                 *)
(*   k = "num"       : the number n                                        *)
(*   k = "str"       : the string s                                        *)
(* The time value NaNTime stands for NaN (an Invalid Date).                *)
(***************************************************************************)
NaNTime == 0 - 1

Undefined == [k |-> "undefined", n |-> 0, s |-> ""]
Null == [k |-> "null", n |-> 0, s |-> ""]
DateObj(t) == [k |-> "date", n |-> t, s |-> ""]
Num(t) == [k |-> "num", n |-> t, s |-> ""]
Str(x) == [k |-> "str", n |-> 0, s |-> x]

\* Date.prototype.toISOString for the instants of the model (UTC rendering).
IsoTable ==
  << "1970-01-01T00:00:00.000Z", "1970-01-01T00:00:00.001Z",
     "1970-01-01T00:00:00.002Z", "1970-01-01T00:00:00.003Z",
     "1970-01-01T00:00:00.004Z", "1970-01-01T00:00:00.005Z" >>

toISOString(t) == IsoTable[t + 1]

\* new Date(string): the ISO renderings parse back to their instant, the
\* date-only form is midnight UTC, anything else is an Invalid Date.
DateParse(x) ==
  IF \E i \in 1..Len(IsoTable) : IsoTable[i] = x
    THEN (CHOOSE i \in 1..Len(IsoTable) : IsoTable[i] = x) - 1
    ELSE IF x = "1970-01-01" THEN 0 ELSE NaNTime

\* JSON.parse(JSON.stringify(v)) of one field value: a Date is written by
\* toJSON as its ISO string (null when invalid) and is not revived, NaN is
\* written as null, an absent key stays absent.
JsonValue(v) ==
  CASE v.k = "date" -> IF v.n = NaNTime THEN Null ELSE Str(toISOString(v.n))
    [] v.k = "num" -> IF v.n = NaNTime THEN Null ELSE v
    [] OTHER -> v

(***************************************************************************)
(* TimeConfig (types.ts).  intervalMs = AbsentMs means the key is absent.  *)
(***************************************************************************)
AbsentMs == 0
DefaultIntervalMs == 60000

TC(m, ms, fz) == [mode |-> m, intervalMs |-> ms, freezeTo |-> fz]

\* the absence of an entry under a perFeature key
NoEntry == TC("none", AbsentMs, Undefined)

JsonTC(tc) == [tc EXCEPT !.freezeTo = JsonValue(tc.freezeTo)]

\* { ...prev, ...src } on two TimeConfig objects; prev = NoEntry is {}.
SpreadTC(prev, src) ==
  TC(src.mode,
     IF src.intervalMs = AbsentMs THEN prev.intervalMs ELSE src.intervalMs,
     IF src.freezeTo = Undefined THEN prev.freezeTo ELSE src.freezeTo)

FEATURES == << "input", "myweb", "flower" >>
Features == { FEATURES[i] : i \in 1..Len(FEATURES) }
\* keys a perFeature map can carry: the features and one unrecognized name
Keys == Features \cup { "mymodel" }

(***************************************************************************)
(* State.                                                                  *)
(***************************************************************************)
VARIABLES
  config,      \* inputCore.ts: the stored MashOSConfig (its time part)
  timeMap,     \* inputCore.ts: feature -> adapter held, NoAdapter if undefined
  disposers,   \* inputCore.ts: feature -> adapter whose __dispose is held
  adapters,    \* every adapter object created so far, by identity 1..Len
  timers,      \* the platform's active setInterval timers
  nextTimer,   \* the next timer id setInterval hands out
  wall,        \* the wall clock, what new Date() reads
  subs,        \* the unsubscribe handles returned so far, in call order
  last,        \* the operation performed by the last step and what it did
  nConfigure,  \* configure calls made so far
  nCreate      \* direct createTimeAdapter calls made so far

vars == << config, timeMap, disposers, adapters, timers, nextTimer, wall,
           subs, last, nConfigure, nCreate >>

NoAdapter == 0
NullTimer == 0
FirstTimerId == 1

\* the subscriber callbacks user code passes to subscribe, by identity
Callbacks == { "cbA", "cbB" }
NoCallback == ""

(***************************************************************************)
(* timeService.ts                                                          *)
(***************************************************************************)
\* (mutant) resolveNow that tests "if (!freezeTo)": 0 counts as unset
resolveNowFalsy(freezeTo, w) ==
  CASE freezeTo.k \in {"undefined", "null"} -> w
    [] freezeTo.k = "date" -> freezeTo.n
    [] freezeTo.k = "num" -> IF freezeTo.n = 0 THEN w ELSE freezeTo.n
    [] OTHER -> DateParse(freezeTo.s)

\* resolveNow(freezeTo) when the wall clock reads w
resolveNow(freezeTo, w) ==
  CASE freezeTo.k \in {"undefined", "null"} -> w
    [] freezeTo.k = "date" -> freezeTo.n
    [] freezeTo.k = "num" -> freezeTo.n
    [] OTHER -> DateParse(freezeTo.s)

\* const baseNow = () => resolveNow(cfg.freezeTo ?? null)
baseNow(cfg, w) == resolveNow(IF cfg.freezeTo = Undefined THEN Null ELSE cfg.freezeTo, w)

\* (mutant) stop() that forgets the timer id without clearInterval
stopWithoutClear(h, a) == [h EXCEPT !.adapters[a].timer = NullTimer]

\* stop() of adapter a: clearInterval(timer); timer = null
stop(h, a) ==
  IF h.adapters[a].timer # NullTimer
    THEN [h EXCEPT !.timers = { tm \in @ : tm.id # h.adapters[a].timer },
                   !.adapters[a].timer = NullTimer]
    ELSE h

\* __dispose: () => stop(); disposed records that it has been invoked
Dispose(h, a) == [stop(h, a) EXCEPT !.adapters[a].disposed = TRUE]

\* start() of adapter a: stop(); timer = setInterval(..., intervalMs)
start(h, a) ==
  LET h1 == stop(h, a) IN
    [h1 EXCEPT !.timers = @ \cup { [id |-> h1.nextTimer, adapter |-> a,
                                     ms |-> h1.adapters[a].intervalMs] },
               !.adapters[a].timer = h1.nextTimer,
               !.nextTimer = @ + 1]

\* createTimeAdapter(cfg): the new adapter is the last of h.adapters
createTimeAdapter(h, cfg, who) ==
  IF cfg.mode = "snapshot" \/ cfg.mode = "off"
    THEN [h EXCEPT !.adapters = Append(@,
            [cfg |-> cfg, subscribable |-> FALSE, listeners |-> << >>,
             intervalMs |-> AbsentMs, timer |-> NullTimer, owner |-> who,
             disposed |-> FALSE])]
    ELSE start([h EXCEPT !.adapters = Append(@,
            [cfg |-> cfg, subscribable |-> TRUE, listeners |-> << >>,
             intervalMs |-> IF cfg.intervalMs # AbsentMs THEN cfg.intervalMs
                                                       ELSE DefaultIntervalMs,
             timer |-> NullTimer, owner |-> who, disposed |-> FALSE])],
          Len(h.adapters) + 1)

\* (mutant) listeners kept in an array: push(cb)
SetAddAsArray(ls, cb) == Append(ls, cb)

\* listeners.add(cb) on an insertion-ordered Set
SetAdd(ls, cb) == IF \E i \in 1..Len(ls) : ls[i] = cb THEN ls ELSE Append(ls, cb)
\* listeners.delete(cb)
SetDelete(ls, cb) == SelectSeq(ls, LAMBDA x : x # cb)

\* (mutant) forEach without the try/catch: the first exception ends the loop
RECURSIVE forEachNoCatch(_, _, _)
forEachNoCatch(ls, t, throws) ==
  IF ls = << >> THEN << >>
  ELSE << [cb |-> Head(ls), t |-> t, threw |-> Head(ls) \in throws] >>
         \o (IF Head(ls) \in throws THEN << >>
                                    ELSE forEachNoCatch(Tail(ls), t, throws))

\* listeners.forEach((fn) => { try { fn(t); } catch {} }): the calls made,
\* in order, when the callbacks in throws raise an exception
RECURSIVE forEachListener(_, _, _)
forEachListener(ls, t, throws) ==
  IF ls = << >> THEN << >>
  ELSE << [cb |-> Head(ls), t |-> t, threw |-> Head(ls) \in throws] >>
         \o forEachListener(Tail(ls), t, throws)

(***************************************************************************)
(* inputCore.ts: the registry                                              *)
(***************************************************************************)
NoPerFeature == [k \in Keys |-> NoEntry]
NoPartial == [hasTime |-> FALSE, default |-> NoEntry, perFeature |-> NoPerFeature]

\* let config = { time: { default: { mode: "snapshot" }, perFeature: {} } }
InitialConfig ==
  [default |-> TC("snapshot", AbsentMs, Undefined), perFeature |-> NoPerFeature]

\* (mutant) mergeConfig that replaces the whole perFeature map by the partial's
mergeConfigReplacingMap(base, next) ==
  LET out == [default |-> JsonTC(base.default),
              perFeature |-> [k \in Keys |-> JsonTC(base.perFeature[k])]]
  IN IF ~next.hasTime THEN out
     ELSE [default |-> IF next.default # NoEntry
                         THEN SpreadTC(out.default, next.default)
                         ELSE out.default,
           perFeature |-> IF next.perFeature = NoPerFeature THEN out.perFeature
                          ELSE next.perFeature]

\* mergeConfig(base, next)
mergeConfig(base, next) ==
  LET out == [default |-> JsonTC(base.default),
              perFeature |-> [k \in Keys |-> JsonTC(base.perFeature[k])]]
  IN IF ~next.hasTime THEN out
     ELSE [default |-> IF next.default # NoEntry
                         THEN SpreadTC(out.default, next.default)
                         ELSE out.default,
           perFeature |-> [k \in Keys |->
                             IF next.perFeature[k] # NoEntry
                               THEN SpreadTC(out.perFeature[k], next.perFeature[k])
                               ELSE out.perFeature[k]]]

\* (mutant) resolveTimeConfig that lays the override over the default entry
resolveTimeConfigBlending(cfg, f) ==
  IF cfg.perFeature[f] # NoEntry THEN SpreadTC(cfg.default, cfg.perFeature[f])
                                 ELSE cfg.default

\* (mutant) resolveTimeConfig that lets flower fall back to an entry stored
\* under its former name mymodel
resolveTimeConfigLegacyAlias(cfg, f) ==
  IF cfg.perFeature[f] # NoEntry THEN cfg.perFeature[f]
  ELSE IF f = "flower" /\ cfg.perFeature["mymodel"] # NoEntry
    THEN cfg.perFeature["mymodel"]
    ELSE cfg.default

\* resolveTimeConfig(feature): per[feature] || fallback
resolveTimeConfig(cfg, f) ==
  IF cfg.perFeature[f] # NoEntry THEN cfg.perFeature[f] ELSE cfg.default

\* (mutant) first loop that forgets the disposers without calling them
disposeExistingUncalled(r, i) ==
  [r EXCEPT !.disposers = [f \in Features |-> NoAdapter]]

\* first loop of rebuildTimeAdapters, from FEATURES[i] on
RECURSIVE disposeExisting(_, _)
disposeExisting(r, i) ==
  IF i > Len(FEATURES) THEN r
  ELSE LET f == FEATURES[i] IN
    IF r.disposers[f] # NoAdapter
      THEN disposeExisting(
             [Dispose(r, r.disposers[f]) EXCEPT !.disposers[f] = NoAdapter], i + 1)
      ELSE disposeExisting(r, i + 1)

\* (mutant) second loop that keeps an adapter whose TimeConfig did not change
RECURSIVE rebuildKeepingSame(_, _, _)
rebuildKeepingSame(r, cfg, i) ==
  IF i > Len(FEATURES) THEN r
  ELSE LET f == FEATURES[i]
           tc == resolveTimeConfig(cfg, f)
       IN IF tc.mode = "off"
            THEN rebuildKeepingSame([r EXCEPT !.timeMap[f] = NoAdapter], cfg, i + 1)
            ELSE IF r.timeMap[f] # NoAdapter /\ r.adapters[r.timeMap[f]].cfg = tc
              THEN rebuildKeepingSame(r, cfg, i + 1)
              ELSE LET r1 == createTimeAdapter(r, tc, "registry")
                       a == Len(r1.adapters)
                   IN rebuildKeepingSame(
                        [r1 EXCEPT !.timeMap[f] = a,
                                   !.disposers[f] =
                                      IF r1.adapters[a].subscribable THEN a ELSE @],
                        cfg, i + 1)

\* second loop of rebuildTimeAdapters, from FEATURES[i] on
RECURSIVE rebuild(_, _, _)
rebuild(r, cfg, i) ==
  IF i > Len(FEATURES) THEN r
  ELSE LET f == FEATURES[i]
           tc == resolveTimeConfig(cfg, f)
       IN IF tc.mode = "off"
            THEN rebuild([r EXCEPT !.timeMap[f] = NoAdapter], cfg, i + 1)
            ELSE LET r1 == createTimeAdapter(r, tc, "registry")
                     a == Len(r1.adapters)
                 IN rebuild(
                      [r1 EXCEPT !.timeMap[f] = a,
                                 !.disposers[f] =
                                    IF r1.adapters[a].subscribable THEN a ELSE @],
                      cfg, i + 1)

\* (mutant) rebuildTimeAdapters without its first loop
rebuildWithoutDispose(r, cfg) == rebuild(r, cfg, 1)

\* rebuildTimeAdapters(): dispose existing, then rebuild
rebuildTimeAdapters(r, cfg) == rebuild(disposeExisting(r, 1), cfg, 1)

Registry ==
  [adapters |-> adapters, timers |-> timers, nextTimer |-> nextTimer,
   timeMap |-> timeMap, disposers |-> disposers]

Heap == [adapters |-> adapters, timers |-> timers, nextTimer |-> nextTimer]

Did(op, a, cb, h, t, calls, next) ==
  [op |-> op, a |-> a, cb |-> cb, h |-> h, t |-> t, calls |-> calls, next |-> next]

(***************************************************************************)
(* Init: the module has been loaded; line 103 has run rebuildTimeAdapters. *)
(***************************************************************************)
Loaded ==
  rebuildTimeAdapters(
    [adapters |-> << >>, timers |-> {}, nextTimer |-> FirstTimerId,
     timeMap |-> [f \in Features |-> NoAdapter],
     disposers |-> [f \in Features |-> NoAdapter]],
    InitialConfig)

Init ==
  /\ config = InitialConfig
  /\ adapters = Loaded.adapters
  /\ timers = Loaded.timers
  /\ nextTimer = Loaded.nextTimer
  /\ timeMap = Loaded.timeMap
  /\ disposers = Loaded.disposers
  /\ wall = 0
  /\ subs = << >>
  /\ last = Did("load", NoAdapter, NoCallback, 0, 0, << >>, NoPartial)
  /\ nConfigure = 0
  /\ nCreate = 0

(***************************************************************************)
(* Inputs.                                                                 *)
(***************************************************************************)
\* TimeConfig literals of configure calls (mode is required by the type)
ConfigInputs ==
  { TC("snapshot", AbsentMs, Undefined),
    TC("off", AbsentMs, Undefined),
    TC("interval", 1000, DateObj(0)) }

OnlyKey(k, tc) == [x \in Keys |-> IF x = k THEN tc ELSE NoEntry]

\* arguments of configure: {} , { time: { default } } and
\* { time: { perFeature: { k: tc } } }
Partials ==
  { NoPartial }
  \cup { [hasTime |-> TRUE, default |-> d, perFeature |-> NoPerFeature] :
           d \in ConfigInputs }
  \cup { [hasTime |-> TRUE, default |-> NoEntry, perFeature |-> OnlyKey(k, tc)] :
           k \in Features, tc \in ConfigInputs }

\* TimeConfig literals of the configure calls that exercise mergeConfig: each
\* mode, intervalMs given and omitted, freezeTo omitted, null, a Date, an ISO
\* string, epoch milliseconds, an Invalid Date and an unparseable string
MergeInputs ==
  { TC("snapshot", AbsentMs, Undefined),
    TC("off", AbsentMs, Undefined),
    TC("interval", 1000, Undefined),
    TC("interval", AbsentMs, DateObj(0)),
    TC("snapshot", 2000, Str(toISOString(1))),
    TC("snapshot", AbsentMs, Null),
    TC("interval", AbsentMs, DateObj(NaNTime)),
    TC("snapshot", AbsentMs, Num(1)),
    TC("off", AbsentMs, Str("not-a-date")) }

MergePartials ==
  { NoPartial }
  \cup { [hasTime |-> TRUE, default |-> d, perFeature |-> NoPerFeature] :
           d \in MergeInputs }
  \cup { [hasTime |-> TRUE, default |-> NoEntry, perFeature |-> OnlyKey(k, tc)] :
           k \in Keys, tc \in MergeInputs }
  \cup { [hasTime |-> TRUE, default |-> d, perFeature |-> OnlyKey(k, tc)] :
           d \in ConfigInputs, k \in { "myweb", "mymodel" }, tc \in ConfigInputs }

\* TimeConfig literals of direct createTimeAdapter calls
CreateInputs ==
  { TC("interval", AbsentMs, fz) :
      fz \in { Undefined, Num(0), DateObj(1), Str(toISOString(1)) } }
  \cup { TC("snapshot", AbsentMs, Str("1970-01-01")) }

(***************************************************************************)
(* Actions.                                                                *)
(***************************************************************************)
\* MashOS.configure(next)
configure(next) ==
  /\ nConfigure < MaxConfigures
  /\ LET merged == mergeConfig(config, next)
         r == rebuildTimeAdapters(Registry, merged)
     IN /\ config' = merged
        /\ adapters' = r.adapters
        /\ timers' = r.timers
        /\ nextTimer' = r.nextTimer
        /\ timeMap' = r.timeMap
        /\ disposers' = r.disposers
  /\ nConfigure' = nConfigure + 1
  /\ last' = Did("configure", NoAdapter, NoCallback, 0, 0, << >>, next)
  /\ UNCHANGED << wall, subs, nCreate >>

\* user code calls the exported createTimeAdapter(cfg) itself
create(cfg) ==
  /\ nCreate < MaxCreates
  /\ LET h == createTimeAdapter(Heap, cfg, "user")
     IN /\ adapters' = h.adapters
        /\ timers' = h.timers
        /\ nextTimer' = h.nextTimer
  /\ nCreate' = nCreate + 1
  /\ last' = Did("create", Len(adapters) + 1, NoCallback, 0, 0, << >>, NoPartial)
  /\ UNCHANGED << config, timeMap, disposers, wall, subs, nConfigure >>

\* adapter.now()
now(a) ==
  /\ last' = Did("now", a, NoCallback, 0, baseNow(adapters[a].cfg, wall), << >>, NoPartial)
  /\ UNCHANGED << config, timeMap, disposers, adapters, timers, nextTimer,
                  wall, subs, nConfigure, nCreate >>

\* (mutant) subscribe without the initial notification
subscribeWithoutInitial(a, cb, threw) ==
  /\ adapters[a].subscribable
  /\ Len(subs) < MaxSubscribes
  /\ adapters' = [adapters EXCEPT ![a].listeners = SetAdd(@, cb)]
  /\ subs' = Append(subs, [a |-> a, cb |-> cb, called |-> FALSE])
  /\ last' = Did("subscribe", a, cb, Len(subs) + 1, 0, << >>, NoPartial)
  /\ UNCHANGED << config, timeMap, disposers, timers, nextTimer, wall,
                  nConfigure, nCreate >>

\* adapter.subscribe(cb); threw: whether cb throws when it is called
subscribe(a, cb, threw) ==
  /\ adapters[a].subscribable
  /\ Len(subs) < MaxSubscribes
  /\ adapters' = [adapters EXCEPT ![a].listeners = SetAdd(@, cb)]
  /\ subs' = Append(subs, [a |-> a, cb |-> cb, called |-> FALSE])
  /\ last' = Did("subscribe", a, cb, Len(subs) + 1, 0,
                 << [cb |-> cb, t |-> baseNow(adapters[a].cfg, wall),
                     threw |-> threw] >>, NoPartial)
  /\ UNCHANGED << config, timeMap, disposers, timers, nextTimer, wall,
                  nConfigure, nCreate >>

\* (mutant) an unsubscribe handle that does listeners.clear()
unsubscribeClearingAll(h) ==
  /\ adapters' = [adapters EXCEPT ![subs[h].a].listeners = << >>]
  /\ subs' = [subs EXCEPT ![h].called = TRUE]
  /\ last' = Did("unsubscribe", subs[h].a, subs[h].cb, h, 0, << >>, NoPartial)
  /\ UNCHANGED << config, timeMap, disposers, timers, nextTimer, wall,
                  nConfigure, nCreate >>

\* calling the h-th handle returned by subscribe: listeners.delete(cb)
unsubscribe(h) ==
  /\ adapters' = [adapters EXCEPT ![subs[h].a].listeners = SetDelete(@, subs[h].cb)]
  /\ subs' = [subs EXCEPT ![h].called = TRUE]
  /\ last' = Did("unsubscribe", subs[h].a, subs[h].cb, h, 0, << >>, NoPartial)
  /\ UNCHANGED << config, timeMap, disposers, timers, nextTimer, wall,
                  nConfigure, nCreate >>

\* (mutant) a tick that reads new Date() instead of baseNow()
tickReadingWallClock(tm, throws) ==
  /\ tm \in timers
  /\ last' = Did("tick", tm.adapter, NoCallback, 0, wall,
                 forEachListener(adapters[tm.adapter].listeners, wall, throws),
                 NoPartial)
  /\ UNCHANGED << config, timeMap, disposers, adapters, timers, nextTimer,
                  wall, subs, nConfigure, nCreate >>

\* the platform fires interval timer tm; throws: the callbacks that throw
tick(tm, throws) ==
  /\ tm \in timers
  /\ LET t == baseNow(adapters[tm.adapter].cfg, wall)
     IN last' = Did("tick", tm.adapter, NoCallback, 0, t,
                    forEachListener(adapters[tm.adapter].listeners, t, throws),
                    NoPartial)
  /\ UNCHANGED << config, timeMap, disposers, adapters, timers, nextTimer,
                  wall, subs, nConfigure, nCreate >>

\* user code calls adapter.__dispose() on an adapter it created
dispose(a) ==
  /\ adapters[a].subscribable
  /\ adapters[a].owner = "user"
  /\ LET h == Dispose(Heap, a)
     IN /\ adapters' = h.adapters
        /\ timers' = h.timers
        /\ nextTimer' = h.nextTimer
  /\ last' = Did("dispose", a, NoCallback, 0, 0, << >>, NoPartial)
  /\ UNCHANGED << config, timeMap, disposers, wall, subs, nConfigure, nCreate >>

\* real time passes
advance ==
  /\ wall < MaxWall
  /\ wall' = wall + 1
  /\ last' = Did("advance", NoAdapter, NoCallback, 0, 0, << >>, NoPartial)
  /\ UNCHANGED << config, timeMap, disposers, adapters, timers, nextTimer,
                  subs, nConfigure, nCreate >>

ListenerSet(a) == { adapters[a].listeners[i] : i \in 1..Len(adapters[a].listeners) }

\* the adapters the registry holds now
Held == { timeMap[f] : f \in Features } \ { NoAdapter }

\* the registry and the adapters it holds
Next ==
  \/ \E next \in Partials : configure(next)
  \/ \E a \in Held, cb \in Callbacks :
       Len(subs) < MaxHeldSubscribes /\ subscribe(a, cb, FALSE)
  \/ \E h \in 1..Len(subs) : unsubscribe(h)
  \/ \E tm \in timers : tick(tm, {})

Spec == Init /\ [][Next]_vars

\* timeService.ts used on its own: adapters made by createTimeAdapter
NextTime ==
  \/ \E cfg \in CreateInputs : create(cfg)
  \/ \E a \in 1..Len(adapters) : adapters[a].owner = "user" /\ now(a)
  \/ \E a \in 1..Len(adapters), cb \in Callbacks, threw \in BOOLEAN :
       subscribe(a, cb, threw)
  \/ \E h \in 1..Len(subs) : unsubscribe(h)
  \/ \E tm \in timers : \E throws \in SUBSET ListenerSet(tm.adapter) :
       tick(tm, throws)
  \/ \E a \in 1..Len(adapters) : dispose(a)
  \/ advance

SpecTime == Init /\ [][NextTime]_vars

\* the registry under configure calls alone, over the merge inputs
NextConfig == \E next \in MergePartials : configure(next)

SpecConfig == Init /\ [][NextConfig]_vars

(***************************************************************************)
(* Vocabulary of the properties.                                           *)
(***************************************************************************)
\* the instant a freezeTo value denotes (NaNTime when it denotes none)
Denoted(fz) ==
  CASE fz.k = "date" -> fz.n
    [] fz.k = "num" -> fz.n
    [] fz.k = "str" ->
         IF \E t \in 0..(Len(IsoTable) - 1) : toISOString(t) = fz.s
           THEN CHOOSE t \in 0..(Len(IsoTable) - 1) : toISOString(t) = fz.s
           ELSE IF fz.s = "1970-01-01" THEN 0 ELSE NaNTime
    [] OTHER -> NaNTime

\* freezeTo is set (to anything but null / undefined)
FreezeSet(fz) == fz.k \in { "date", "num", "str" }
\* freezeTo is set to a valid instant
FrozenValid(fz) == FreezeSet(fz) /\ Denoted(fz) # NaNTime

TimersOf(a) == { tm \in timers : tm.adapter = a }
CalledCbs(calls) == { calls[i].cb : i \in 1..Len(calls) }

(***************************************************************************)
(* C1. After module initialisation and any sequence of configure calls,   *)
(* each recognized feature has exactly one active polling timer if its     *)
(* effective mode is interval and none otherwise; every active timer       *)
(* belongs to an adapter the registry holds now (none is leaked by a       *)
(* replaced adapter), and no two features share an adapter.                *)
(***************************************************************************)
C1_OneTimerPerIntervalFeature ==
  /\ \A f \in Features :
       LET n == IF timeMap[f] = NoAdapter THEN 0
                ELSE Cardinality(TimersOf(timeMap[f]))
       IN n = (IF resolveTimeConfig(config, f).mode = "interval" THEN 1 ELSE 0)
  /\ \A tm \in timers :
       adapters[tm.adapter].owner = "registry" => tm.adapter \in Held
  /\ \A f, g \in Features :
       f # g /\ timeMap[f] # NoAdapter => timeMap[f] # timeMap[g]

\* two configure calls made, an interval adapter was replaced, and a feature
\* is in interval mode now
C1_Witness ==
  /\ nConfigure = 2
  /\ \E a \in 1..Len(adapters) : adapters[a].subscribable /\ a \notin Held
  /\ \E f \in Features : resolveTimeConfig(config, f).mode = "interval"
  /\ \E f \in Features : resolveTimeConfig(config, f).mode # "interval"

(***************************************************************************)
(* C2. An adapter whose freezeTo is a valid instant (Date, ISO string or   *)
(* epoch ms) returns exactly that instant from every now() call, whatever  *)
(* the wall clock reads and whatever happened before.                      *)
(***************************************************************************)
C2_FrozenNow ==
  last.op = "now" /\ FrozenValid(adapters[last.a].cfg.freezeTo)
    => last.t = Denoted(adapters[last.a].cfg.freezeTo)

\* now() was called on a frozen adapter while the wall clock read otherwise
C2_Witness ==
  /\ last.op = "now"
  /\ FrozenValid(adapters[last.a].cfg.freezeTo)
  /\ Denoted(adapters[last.a].cfg.freezeTo) # wall

(***************************************************************************)
(* C3. subscribe(cb) on an interval adapter calls cb exactly once, within  *)
(* the subscribe call itself (no timer tick is part of that step), with    *)
(* the adapter's current instant, and cb is registered when it returns.    *)
(***************************************************************************)
C3_InitialNotification ==
  last.op = "subscribe"
    => /\ Len(last.calls) = 1
       /\ last.calls[1].cb = last.cb
       /\ last.calls[1].t = baseNow(adapters[last.a].cfg, wall)
       /\ last.cb \in ListenerSet(last.a)

\* subscribe was called on an adapter whose timer is running
C3_Witness ==
  /\ last.op = "subscribe"
  /\ TimersOf(last.a) # {}

(***************************************************************************)
(* C4. A tick calls every callback subscribed at that tick exactly once,   *)
(* in registration order, and all of them get the same instant: the        *)
(* frozen instant when freezeTo is set, else the wall clock at the tick.   *)
(***************************************************************************)
C4_TickNotifiesAll ==
  last.op = "tick"
    => LET ls == adapters[last.a].listeners
           fz == adapters[last.a].cfg.freezeTo
       IN /\ Len(last.calls) = Len(ls)
          /\ \A i \in 1..Len(ls) :
               last.calls[i].cb = ls[i] /\ last.calls[i].t = last.t
          /\ last.t = (IF FreezeSet(fz) THEN Denoted(fz) ELSE wall)

\* a tick of a frozen adapter reached two callbacks while the clock read
\* another instant
C4_Witness ==
  /\ last.op = "tick"
  /\ Len(last.calls) = 2
  /\ FreezeSet(adapters[last.a].cfg.freezeTo)
  /\ last.t # wall

(***************************************************************************)
(* C5. An exception thrown by a callback, in a tick or in its initial      *)
(* notification, is discarded: the tick still calls every subscriber, the  *)
(* timer stays active, the thrower stays registered, and the step changes  *)
(* nothing else, so later ticks go on as before.                           *)
(***************************************************************************)
C5_ThrowIsolatedState ==
  /\ (last.op = "tick" /\ \E i \in 1..Len(last.calls) : last.calls[i].threw)
       => /\ CalledCbs(last.calls) = ListenerSet(last.a)
          /\ Len(last.calls) = Len(adapters[last.a].listeners)
          /\ TimersOf(last.a) # {}
  /\ (last.op = "subscribe" /\ \E i \in 1..Len(last.calls) : last.calls[i].threw)
       => /\ last.cb \in ListenerSet(last.a)
          /\ last.h = Len(subs)

C5_ThrowIsolatedStep ==
  /\ last'.op = "tick" => adapters' = adapters /\ timers' = timers
  /\ last'.op = "subscribe" => timers' = timers

C5_ThrowIsolated == []C5_ThrowIsolatedState /\ [][C5_ThrowIsolatedStep]_vars

\* in one tick the first of two subscribers threw and the second was called
C5_Witness ==
  /\ last.op = "tick"
  /\ Len(last.calls) = 2
  /\ last.calls[1].threw
  /\ ~last.calls[2].threw

\* the h-th subscribe call's subscription is in force: its own handle has
\* not been called and its callback is registered on its adapter
InForce(h) == ~subs[h].called /\ subs[h].cb \in ListenerSet(subs[h].a)

(***************************************************************************)
(* C6 as stated. Calling the unsubscribe handle returned by a subscribe    *)
(* call takes that subscription's callback out of the listeners, leaves    *)
(* every other subscription (every other subscribe call whose own handle   *)
(* has not been called) registered, and leaves the timer running.          *)
(***************************************************************************)
C6_AsStatedStep ==
  last'.op = "unsubscribe"
    => /\ last'.cb \notin { adapters'[last'.a].listeners[i] :
                              i \in 1..Len(adapters'[last'.a].listeners) }
       /\ \A j \in 1..Len(subs) :
            j # last'.h /\ InForce(j)
              => subs[j].cb \in { adapters'[subs[j].a].listeners[i] :
                                    i \in 1..Len(adapters'[subs[j].a].listeners) }
       /\ timers' = timers

C6_OtherSubscriptionsKept == [][C6_AsStatedStep]_vars

(***************************************************************************)
(* C6 amended. Calling an unsubscribe handle removes its callback from     *)
(* the adapter's listeners, so no later tick reaches that callback until   *)
(* it is subscribed again; every other callback registered on any adapter  *)
(* stays registered, in the same order, and no timer is touched.  A        *)
(* second subscription of the same callback on the same adapter shares     *)
(* the one registration and ends with it.                                  *)
(***************************************************************************)
C6_UnsubscribeStep ==
  /\ last'.op = "unsubscribe"
       => /\ last'.cb \notin { adapters'[last'.a].listeners[i] :
                                 i \in 1..Len(adapters'[last'.a].listeners) }
          /\ adapters'[last'.a].listeners =
               SelectSeq(adapters[last'.a].listeners, LAMBDA x : x # last'.cb)
          /\ \A b \in 1..Len(adapters) :
               b # last'.a => adapters'[b] = adapters[b]
          /\ adapters'[last'.a].timer = adapters[last'.a].timer
          /\ timers' = timers
  /\ last'.op = "tick"
       => CalledCbs(last'.calls) \subseteq ListenerSet(last'.a)

C6_UnsubscribeFrame == [][C6_UnsubscribeStep]_vars

\* a handle was called while another callback was registered on the same
\* adapter, through a subscription still in force, and its timer was running
C6_Witness ==
  /\ last.op = "unsubscribe"
  /\ adapters[last.a].listeners # << >>
  /\ \E j \in 1..Len(subs) : j # last.h /\ subs[j].a = last.a /\ InForce(j)
  /\ TimersOf(last.a) # {}

(***************************************************************************)
(* C7. Once __dispose of an interval adapter has been invoked, no tick of  *)
(* that adapter is delivered any more and it owns no active timer.         *)
(***************************************************************************)
C7_NoTickAfterDispose ==
  /\ last.op = "tick" => ~adapters[last.a].disposed
  /\ \A a \in 1..Len(adapters) : adapters[a].disposed => TimersOf(a) = {}

\* time passed after a disposed adapter was left with a subscriber
C7_Witness ==
  /\ last.op = "advance"
  /\ \E a \in 1..Len(adapters) :
       adapters[a].disposed /\ adapters[a].listeners # << >>

(***************************************************************************)
(* C8. After every configure call each recognized feature whose effective  *)
(* mode is not off holds an adapter created by that call, distinct from    *)
(* the one held before, and the one held before has been torn down (its    *)
(* __dispose, if it has one, was invoked and it owns no active timer);     *)
(* also for features whose resolved TimeConfig did not change.             *)
(***************************************************************************)
C8_ConfigureStep ==
  last'.op = "configure"
    => \A f \in Features :
         /\ resolveTimeConfig(config', f).mode # "off"
              => /\ timeMap'[f] > Len(adapters)
                 /\ timeMap'[f] # timeMap[f]
                 /\ adapters'[timeMap'[f]].cfg = resolveTimeConfig(config', f)
         /\ timeMap[f] # NoAdapter
              => /\ { tm \in timers' : tm.adapter = timeMap[f] } = {}
                 /\ adapters'[timeMap[f]].timer = NullTimer
                 /\ adapters[timeMap[f]].subscribable
                      => adapters'[timeMap[f]].disposed

C8_RebuildAll == [][C8_ConfigureStep]_vars

\* configure({}) was called while a feature ran in interval mode: nothing
\* in the configuration changed
C8_Witness ==
  /\ last.op = "configure"
  /\ last.next = NoPartial
  /\ nConfigure = 2
  /\ \E f \in Features : resolveTimeConfig(config, f).mode = "interval"

\* two field values with the same content: equal, or two representations
\* (Date, ISO string, epoch ms) of the same valid instant
SameValue(v, w) ==
  v = w \/ (FrozenValid(v) /\ FrozenValid(w) /\ Denoted(v) = Denoted(w))
SameTC(a, b) ==
  /\ a.mode = b.mode
  /\ a.intervalMs = b.intervalMs
  /\ SameValue(a.freezeTo, b.freezeTo)

(***************************************************************************)
(* C9 as stated. For every stored configuration and every partial whose    *)
(* per-feature map does not mention feature f, the resolved TimeConfig of  *)
(* f after configure has the same content as before.                       *)
(***************************************************************************)
C9_OmittedFeatureStep ==
  last'.op = "configure"
    => \A f \in Features :
         last'.next.perFeature[f] = NoEntry
           => SameTC(resolveTimeConfig(config', f), resolveTimeConfig(config, f))

C9_OmittedFeatureUnchanged == [][C9_OmittedFeatureStep]_vars

(***************************************************************************)
(* C9 amended. When the partial's per-feature map does not mention f: if  *)
(* f has a stored override or the partial carries no default entry, the    *)
(* resolved TimeConfig of f after the call is the JSON round trip of the   *)
(* one before (same mode and intervalMs; freezeTo the same, except that a  *)
(* Date is kept as its ISO string and an Invalid Date or NaN becomes       *)
(* null); otherwise f resolves to the merged default entry.                *)
(***************************************************************************)
C9_AmendedStep ==
  last'.op = "configure"
    => \A f \in Features :
         last'.next.perFeature[f] = NoEntry
           => IF config.perFeature[f] # NoEntry \/ last'.next.default = NoEntry
                THEN resolveTimeConfig(config', f)
                       = JsonTC(resolveTimeConfig(config, f))
                ELSE resolveTimeConfig(config', f)
                       = SpreadTC(JsonTC(config.default), last'.next.default)

C9_OmittedFeatureAmended == [][C9_AmendedStep]_vars

\* a configure call gave a default entry and no entry for a feature that
\* has a stored override of another mode than the default now stored
C9_Witness ==
  /\ last.op = "configure"
  /\ last.next.default # NoEntry
  /\ \E f \in Features :
       /\ last.next.perFeature[f] = NoEntry
       /\ config.perFeature[f] # NoEntry
       /\ config.perFeature[f].mode # config.default.mode

(***************************************************************************)
(* C10. configure(partial) merges per field: in the default entry and in   *)
(* the entry of each key the partial's per-feature map carries, a field    *)
(* given replaces the stored field and a field omitted keeps its stored    *)
(* value; the stored entry of every key absent from the partial is left    *)
(* untouched.  (Values are compared by content: a Date and the ISO string  *)
(* of the same instant count as the same value.)                           *)
(***************************************************************************)
C10_PerFieldStep ==
  last'.op = "configure"
    => LET nx == last'.next IN
         /\ nx.default # NoEntry
              => SameTC(config'.default, SpreadTC(config.default, nx.default))
         /\ \A k \in Features :
              IF nx.perFeature[k] # NoEntry
                THEN SameTC(config'.perFeature[k],
                            SpreadTC(config.perFeature[k], nx.perFeature[k]))
                ELSE SameTC(config'.perFeature[k], config.perFeature[k])

C10_PerFieldMerge == [][C10_PerFieldStep]_vars

(***************************************************************************)
(* C11. In every reachable registry state each recognized feature resolves *)
(* to exactly one effective TimeConfig: its stored per-feature override    *)
(* entry if one exists, otherwise the default entry, and never a           *)
(* field-by-field blend of the two; the adapter the feature holds was      *)
(* built from exactly that TimeConfig.                                     *)
(***************************************************************************)
C11_OverrideOrDefault ==
  \A f \in Features :
    LET eff == IF config.perFeature[f] # NoEntry THEN config.perFeature[f]
                                                 ELSE config.default
    IN /\ resolveTimeConfig(config, f) = eff
       /\ IF eff.mode = "off"
            THEN timeMap[f] = NoAdapter
            ELSE timeMap[f] # NoAdapter /\ adapters[timeMap[f]].cfg = eff

\* a feature has an override that leaves out a field the default entry has
\* (so that a blend would differ from the override), another has none
C11_Witness ==
  /\ \E f \in Features :
       /\ config.perFeature[f] # NoEntry
       /\ SpreadTC(config.default, config.perFeature[f]) # config.perFeature[f]
       /\ config.perFeature[f].mode # "off"
  /\ \E f \in Features : config.perFeature[f] = NoEntry

(***************************************************************************)
(* The platform's Date, in local time.  A Date is held as its local day    *)
(* number (days since 1970-01-01 local) and the milliseconds elapsed in    *)
(* that day; the local zone has a fixed offset from UTC (no daylight       *)
(* saving), so the pair determines the time value and the other way round. *)
(* An Invalid Date has valid = FALSE.                                      *)
(***************************************************************************)
MsPerDay == 24 * 60 * 60 * 1000
\* local time is UTC + LocalOffsetMs
LocalOffsetMs == 9 * 60 * 60 * 1000
EpochYear == 1970
\* getDay() of 1970-01-01 (a Thursday)
EpochWeekDay == 4

InvalidDate == [valid |-> FALSE, day |-> 0, ms |-> 0]
LocalDate(day, ms) == [valid |-> TRUE, day |-> day, ms |-> ms]

IsLeap(y) == (y % 4 = 0 /\ y % 100 # 0) \/ y % 400 = 0
DaysInYear(y) == IF IsLeap(y) THEN 366 ELSE 365
\* m is 0-based, as in getMonth()
DaysInMonth(y, m) ==
  CASE m = 1 -> IF IsLeap(y) THEN 29 ELSE 28
    [] m \in { 3, 5, 8, 10 } -> 30
    [] OTHER -> 31

\* leap years among the years 1..(y - 1)
LeapsBefore(y) == ((y - 1) \div 4) - ((y - 1) \div 100) + ((y - 1) \div 400)
\* day number of January 1st of year y
DayFromYear(y) == 365 * (y - EpochYear) + LeapsBefore(y) - LeapsBefore(EpochYear)

\* days of year y before its month m (m in 0..12)
RECURSIVE DaysBeforeMonth(_, _)
DaysBeforeMonth(y, m) ==
  IF m = 0 THEN 0 ELSE DaysBeforeMonth(y, m - 1) + DaysInMonth(y, m - 1)

\* MakeDay(year, month, date) of ECMAScript: month and date may lie outside
\* their calendar range and carry over
MakeDay(y, m, dt) ==
  LET ym == y + (m \div 12)
      mn == m % 12
  IN DayFromYear(ym) + DaysBeforeMonth(ym, mn) + dt - 1

MakeTime(h, mi, s, ms) == ((h * 60 + mi) * 60 + s) * 1000 + ms

\* the year that contains a day number (it lies within a year of the estimate)
YearFromDay(day) ==
  CHOOSE y \in (EpochYear + (day \div 366) - 1)..(EpochYear + (day \div 365) + 1) :
    DayFromYear(y) <= day /\ day < DayFromYear(y + 1)
MonthFromDay(day) ==
  LET y == YearFromDay(day)
      n == day - DayFromYear(y)
  IN CHOOSE m \in 0..11 : DaysBeforeMonth(y, m) <= n /\ n < DaysBeforeMonth(y, m + 1)
DateFromDay(day) ==
  LET y == YearFromDay(day)
  IN day - DayFromYear(y) - DaysBeforeMonth(y, MonthFromDay(day)) + 1

\* the getters of a valid Date (on an Invalid Date each of them is NaN)
getFullYear(d) == YearFromDay(d.day)
getMonth(d) == MonthFromDay(d.day)
getDate(d) == DateFromDay(d.day)
getDay(d) == (d.day + EpochWeekDay) % 7
getHours(d) == d.ms \div (60 * 60 * 1000)
getMinutes(d) == (d.ms \div (60 * 1000)) % 60

\* new Date(y, m, dt, h, mi, s, ms)
NewDate(y, m, dt, h, mi, s, ms) == LocalDate(MakeDay(y, m, dt), MakeTime(h, mi, s, ms))

\* new Date(d.getTime() - 1)
MinusOneMs(d) ==
  IF ~d.valid THEN InvalidDate
  ELSE IF d.ms = 0 THEN LocalDate(d.day - 1, MsPerDay - 1)
  ELSE LocalDate(d.day, d.ms - 1)

\* d.setDate(n): the day of the month is replaced, the time of day is kept
setDate(d, n) == LocalDate(MakeDay(getFullYear(d), getMonth(d), n), d.ms)

\* new Date(t) for a time value t (epoch milliseconds, NaNTime for NaN)
DateOfTime(t) ==
  IF t = NaNTime THEN InvalidDate
  ELSE LocalDate((t + LocalOffsetMs) \div MsPerDay, (t + LocalOffsetMs) % MsPerDay)

(***************************************************************************)
(* mywebCore (src/unnamed/part_002)                                        *)
(***************************************************************************)
startOfDay(d) ==
  IF ~d.valid THEN InvalidDate
  ELSE NewDate(getFullYear(d), getMonth(d), getDate(d), 0, 0, 0, 0)

endOfDay(d) ==
  IF ~d.valid THEN InvalidDate
  ELSE NewDate(getFullYear(d), getMonth(d), getDate(d), 23, 59, 59, 999)

\* (mutant) a week that starts on Monday
startOfWeekMonday(d) ==
  IF ~d.valid THEN InvalidDate
  ELSE LET s == startOfDay(NewDate(getFullYear(d), getMonth(d), getDate(d), 0, 0, 0, 0))
       IN setDate(s, getDate(s) - ((getDay(d) + 6) % 7))

startOfWeekSunday(d) ==
  IF ~d.valid THEN InvalidDate
  ELSE LET day == getDay(d)
           s == startOfDay(NewDate(getFullYear(d), getMonth(d), getDate(d), 0, 0, 0, 0))
       IN setDate(s, getDate(s) - day)

endOfWeekSaturday(d) ==
  IF ~d.valid THEN InvalidDate
  ELSE LET s == startOfWeekSunday(d)
       IN NewDate(getFullYear(s), getMonth(s), getDate(s) + 6, 23, 59, 59, 999)

startOfMonth(d) ==
  IF ~d.valid THEN InvalidDate
  ELSE NewDate(getFullYear(d), getMonth(d), 1, 0, 0, 0, 0)

endOfMonth(d) ==
  IF ~d.valid THEN InvalidDate
  ELSE NewDate(getFullYear(d), getMonth(d) + 1, 0, 23, 59, 59, 999)

\* (mutant) a weekly trigger that holds during the whole hour
isWeeklyTriggerAnyMinute(d) == d.valid /\ getDay(d) = 0 /\ getHours(d) = 7

isWeeklyReportTrigger(d) ==
  d.valid /\ getDay(d) = 0 /\ getHours(d) = 7 /\ getMinutes(d) = 0

isMonthlyReportTrigger(d) ==
  d.valid /\ getDate(d) = 1 /\ getHours(d) = 7 /\ getMinutes(d) = 0

Range(s, e) == [start |-> s, end |-> e]

getCompletedWeeklyRangeFrom(ref) ==
  LET thisWeekStart == startOfWeekSunday(ref)
      lastWeekEnd == MinusOneMs(thisWeekStart)
      lastWeekStart ==
        IF ~lastWeekEnd.valid THEN InvalidDate
        ELSE startOfWeekSunday(NewDate(getFullYear(lastWeekEnd), getMonth(lastWeekEnd),
                                       getDate(lastWeekEnd), 0, 0, 0, 0))
  IN Range(lastWeekStart, lastWeekEnd)

getCurrentWeeklyRangeContaining(ref) ==
  Range(startOfWeekSunday(ref), endOfWeekSaturday(ref))

\* (mutant) the month of ref itself up to the end of the month before
getCompletedMonthlyRangeNoBackRef(ref) ==
  LET thisMonthStart == startOfMonth(ref)
  IN Range(thisMonthStart, MinusOneMs(thisMonthStart))

getCompletedMonthlyRangeFrom(ref) ==
  LET thisMonthStart == startOfMonth(ref)
      lastMonthEnd == MinusOneMs(thisMonthStart)
      lastMonthStart == startOfMonth(lastMonthEnd)
  IN Range(lastMonthStart, lastMonthEnd)

getCurrentMonthlyRangeContaining(ref) == Range(startOfMonth(ref), endOfMonth(ref))

(***************************************************************************)
(* The period functions on their own: each step applies one exported       *)
(* function of mywebCore to a reference instant.                           *)
(***************************************************************************)
\* reference instants: the first week and the last days of January,
\* February, March and December, in leap years, common years and a century
\* year that is not a leap year, at the times of day around the trigger
RefYears == { 1999, 2000, 2023, 2024, 2100 }
RefMonths == { 0, 1, 2, 11 }
RefDates == (1..7) \cup { 28, 29, 31 }
RefTimes ==
  { MakeTime(0, 0, 0, 0), MakeTime(6, 59, 59, 999), MakeTime(7, 0, 0, 0),
    MakeTime(7, 0, 59, 999), MakeTime(7, 1, 0, 0), MakeTime(23, 59, 59, 999) }
RefDays == { MakeDay(y, m, dt) : y \in RefYears, m \in RefMonths, dt \in RefDates }

Applied(op, ref, out) == [op |-> op, ref |-> ref, out |-> out]

\* the module is loaded and user code holds a reference instant
InitPeriod ==
  /\ config = InitialConfig
  /\ adapters = Loaded.adapters
  /\ timers = Loaded.timers
  /\ nextTimer = Loaded.nextTimer
  /\ timeMap = Loaded.timeMap
  /\ disposers = Loaded.disposers
  /\ wall = 0
  /\ subs = << >>
  /\ \E day \in RefDays, ms \in RefTimes :
       last = Applied("reference", LocalDate(day, ms), FALSE)
  /\ nConfigure = 0
  /\ nCreate = 0

\* user code applies a function to the reference instant it holds
apply(op, out) ==
  /\ last' = Applied(op, last.ref, out)
  /\ UNCHANGED << config, timeMap, disposers, adapters, timers, nextTimer,
                  wall, subs, nConfigure, nCreate >>

NextPeriod ==
  \/ apply("isWeeklyReportTrigger", isWeeklyReportTrigger(last.ref))
  \/ apply("isMonthlyReportTrigger", isMonthlyReportTrigger(last.ref))
  \/ apply("getCompletedWeeklyRangeFrom", getCompletedWeeklyRangeFrom(last.ref))
  \/ apply("getCurrentWeeklyRangeContaining", getCurrentWeeklyRangeContaining(last.ref))
  \/ apply("getCompletedMonthlyRangeFrom", getCompletedMonthlyRangeFrom(last.ref))
  \/ apply("getCurrentMonthlyRangeContaining", getCurrentMonthlyRangeContaining(last.ref))

SpecPeriod == InitPeriod /\ [][NextPeriod]_vars

\* the calendar length of month m (0-based) of year y
LastDayOf(y, m) ==
  IF m = 1
    THEN (IF y % 400 = 0 \/ (y % 4 = 0 /\ y % 100 # 0) THEN 29 ELSE 28)
    ELSE IF m \in { 3, 5, 8, 10 } THEN 30 ELSE 31

(***************************************************************************)
(* C16. For every reference instant ref, completedWeeklyRange(ref).end is  *)
(* currentWeeklyRange(ref).start minus 1 ms, and the completed range runs  *)
(* from a Sunday 00:00:00.000 to the following Saturday 23:59:59.999 (7    *)
(* local days minus 1 ms), also when the week spans a month or year        *)
(* boundary.                                                               *)
(***************************************************************************)
C16_CompletedWeek ==
  last.op = "getCompletedWeeklyRangeFrom"
    => LET cur == getCurrentWeeklyRangeContaining(last.ref)
           s == last.out.start
           e == last.out.end
       IN /\ s.valid /\ e.valid /\ cur.start.valid
          /\ IF cur.start.ms = 0
               THEN e.day = cur.start.day - 1 /\ e.ms = MsPerDay - 1
               ELSE e.day = cur.start.day /\ e.ms = cur.start.ms - 1
          /\ (e.day - s.day) * MsPerDay + (e.ms - s.ms) = 7 * MsPerDay - 1
          /\ (s.day + EpochWeekDay) % 7 = 0 /\ s.ms = 0
          /\ (e.day + EpochWeekDay) % 7 = 6 /\ e.ms = MakeTime(23, 59, 59, 999)

\* the completed week of a reference instant begins in one year and ends in
\* the next
C16_Witness ==
  /\ last.op = "getCompletedWeeklyRangeFrom"
  /\ getFullYear(last.out.start) # getFullYear(last.out.end)

(***************************************************************************)
(* C17. For every reference instant ref, completedMonthlyRange(ref) is the *)
(* calendar month before the month containing ref: start is its first day  *)
(* 00:00:00.000 and end its last day 23:59:59.999; January yields December *)
(* of the year before, and February ends on the 29th in leap years and on  *)
(* the 28th otherwise.                                                     *)
(***************************************************************************)
C17_CompletedMonth ==
  last.op = "getCompletedMonthlyRangeFrom"
    => LET y == getFullYear(last.ref)
           m == getMonth(last.ref)
           py == IF m = 0 THEN y - 1 ELSE y
           pm == IF m = 0 THEN 11 ELSE m - 1
           s == last.out.start
           e == last.out.end
       IN /\ s.valid /\ e.valid
          /\ getFullYear(s) = py /\ getMonth(s) = pm /\ getDate(s) = 1
          /\ s.ms = 0
          /\ getFullYear(e) = py /\ getMonth(e) = pm
          /\ getDate(e) = LastDayOf(py, pm)
          /\ e.ms = MakeTime(23, 59, 59, 999)

\* a reference instant in March of a leap year: the range ends on Feb 29
C17_Witness ==
  /\ last.op = "getCompletedMonthlyRangeFrom"
  /\ getMonth(last.ref) = 2
  /\ getMonth(last.out.end) = 1
  /\ getDate(last.out.end) = 29

(***************************************************************************)
(* C18. isWeeklyTrigger(ref) is true if and only if ref's local weekday is *)
(* Sunday, its hour is 7 and its minute is 0, for any second and           *)
(* millisecond; it is false at Sunday 07:01:00 and at Monday 07:00:00.     *)
(***************************************************************************)
C18_WeeklyTrigger ==
  last.op = "isWeeklyReportTrigger"
    => last.out = ( /\ (last.ref.day + EpochWeekDay) % 7 = 0
                    /\ last.ref.ms >= MakeTime(7, 0, 0, 0)
                    /\ last.ref.ms <= MakeTime(7, 0, 59, 999) )

\* the trigger held in the last millisecond of Sunday 07:00
C18_Witness ==
  /\ last.op = "isWeeklyReportTrigger"
  /\ last.out
  /\ last.ref.ms = MakeTime(7, 0, 59, 999)

(***************************************************************************)
(* Date.prototype.toISOString: the UTC calendar fields of the instant,     *)
(* written as YYYY-MM-DDTHH:mm:ss.sssZ.  It throws a RangeError on an      *)
(* Invalid Date.                                                           *)
(***************************************************************************)
Pad2(n) == IF n < 10 THEN "0" \o ToString(n) ELSE ToString(n)
Pad3(n) == IF n < 10 THEN "00" \o ToString(n)
           ELSE IF n < 100 THEN "0" \o ToString(n) ELSE ToString(n)

\* the same instant as read in UTC
ToUTC(d) ==
  IF d.ms >= LocalOffsetMs THEN LocalDate(d.day, d.ms - LocalOffsetMs)
  ELSE LocalDate(d.day - 1, d.ms - LocalOffsetMs + MsPerDay)

DateToISOString(d) ==
  LET u == ToUTC(d)
  IN ToString(getFullYear(u)) \o "-" \o Pad2(getMonth(u) + 1) \o "-"
       \o Pad2(getDate(u)) \o "T" \o Pad2(getHours(u)) \o ":"
       \o Pad2(getMinutes(u)) \o ":" \o Pad2((u.ms \div 1000) % 60) \o "."
       \o Pad3(u.ms % 1000) \o "Z"

\* the result of a call: a returned value, or an exception thrown
Returns(v) == [threw |-> FALSE, value |-> v]
Throws(e) == [threw |-> TRUE, value |-> e]

\* an optional property that is undefined
Omitted == "undefined"

\* the MashTime argument of a core function: absent, or an adapter whose
\* now() returns the Date now
NoTime == [present |-> FALSE, now |-> InvalidDate]
TimeOf(d) == [present |-> TRUE, now |-> d]

(***************************************************************************)
(* inputCore.ts: buildEntry                                                *)
(***************************************************************************)
\* (mutant) buildEntry that stamps the entry whether or not a time is given
buildEntryAlwaysStamped(payload, time) ==
  IF time.present /\ ~time.now.valid THEN Throws("RangeError")
  ELSE Returns([emotions |-> payload, created_at |-> DateToISOString(time.now)])

buildEntry(payload, time) ==
  IF time.present
    THEN IF time.now.valid
           THEN Returns([emotions |-> payload,
                         created_at |-> DateToISOString(time.now)])
           ELSE Throws("RangeError")
    ELSE Returns([emotions |-> payload, created_at |-> Omitted])

(***************************************************************************)
(* flowerCore (src/unnamed/part_000).  The five canonical labels stand for *)
(* the source's Japanese string literals; fractions are in hundredths.     *)
(***************************************************************************)
Joy == "joy"
Sadness == "sadness"
Anger == "anger"
Anxiety == "anxiety"
Calm == "calm"

includes(types, x) == \E i \in 1..Len(types) : types[i] = x

annotate(data, time) ==
  IF ~time.present
    THEN Returns([data |-> data, timeBand |-> Omitted, annotated_at |-> Omitted])
  ELSE IF ~time.now.valid
    \* getHours() is NaN: none of the comparisons holds, so the band is
    \* "evening"; then toISOString throws
    THEN Throws("RangeError")
  ELSE LET hr == getHours(time.now)
       IN Returns([data |-> data,
                   timeBand |-> IF hr < 5 THEN "night"
                                ELSE IF hr < 11 THEN "morning"
                                ELSE IF hr < 17 THEN "afternoon"
                                ELSE "evening",
                   annotated_at |-> DateToISOString(time.now)])

toneColorH(types) ==
  IF includes(types, Joy) THEN 50
  ELSE IF includes(types, Sadness) THEN 220
  ELSE IF includes(types, Anger) THEN 0
  ELSE IF includes(types, Anxiety) THEN 200
  ELSE IF includes(types, Calm) THEN 120
  ELSE 200

toneColorS(types) ==
  IF includes(types, Joy) \/ includes(types, Anger) THEN 70
  ELSE IF includes(types, Sadness) THEN 45
  ELSE IF includes(types, Anxiety) THEN 55
  ELSE IF includes(types, Calm) THEN 35
  ELSE 50

\* (mutant) lightness that tries joy before calm
toneColorLJoyFirst(types) ==
  IF includes(types, Joy) THEN 60
  ELSE IF includes(types, Calm) THEN 70
  ELSE IF includes(types, Sadness) THEN 45
  ELSE IF includes(types, Anger) THEN 45
  ELSE 55

toneColorL(types) ==
  IF includes(types, Calm) THEN 70
  ELSE IF includes(types, Joy) THEN 60
  ELSE IF includes(types, Sadness) THEN 45
  ELSE IF includes(types, Anger) THEN 45
  ELSE 55

Min(a, b) == IF a <= b THEN a ELSE b

spread(types) ==
  Min(100, ((IF includes(types, Joy) THEN 1 ELSE 0)
             + (IF includes(types, Calm) THEN 1 ELSE 0)) * 60
           + (IF Len(types) >= 3 THEN 20 ELSE 0))

sway(types) ==
  IF includes(types, Anxiety) THEN 80
  ELSE IF includes(types, Calm) THEN 20
  ELSE 50

breathAmplitude(types) ==
  IF includes(types, Joy) THEN 20
  ELSE IF includes(types, Sadness) THEN 10
  ELSE 15

\* (mutant) bloom speed that tries anger before anxiety
bloomSpeedAngerFirst(types) ==
  IF includes(types, Joy) THEN 100
  ELSE IF includes(types, Sadness) THEN 60
  ELSE IF includes(types, Anger) THEN 80
  ELSE IF includes(types, Anxiety) THEN 70
  ELSE 90

bloomSpeed(types) ==
  IF includes(types, Joy) THEN 100
  ELSE IF includes(types, Sadness) THEN 60
  ELSE IF includes(types, Anxiety) THEN 70
  ELSE IF includes(types, Anger) THEN 80
  ELSE 90

\* (mutant) weather that looks at the emotions before the hour
weatherEmotionFirst(types, time) ==
  IF time.present
    THEN IF includes(types, Joy) THEN "sunny"
         ELSE IF includes(types, Sadness) THEN "rainy"
         ELSE IF time.now.valid
                   /\ (getHours(time.now) < 5 \/ getHours(time.now) >= 22)
           THEN "night"
           ELSE "cloudy"
    ELSE "cloudy"

weather(types, time) ==
  IF time.present /\ time.now.valid
    THEN IF getHours(time.now) < 5 \/ getHours(time.now) >= 22 THEN "night"
         ELSE IF includes(types, Joy) THEN "sunny"
         ELSE IF includes(types, Sadness) THEN "rainy"
         ELSE "cloudy"
    \* without a time there is no hour; the hour of an Invalid Date is NaN,
    \* a number for which neither comparison holds
    ELSE IF time.present
      THEN IF includes(types, Joy) THEN "sunny"
           ELSE IF includes(types, Sadness) THEN "rainy"
           ELSE "cloudy"
      ELSE "cloudy"

\* analyze({ emotions, time }); types is emotions.map((e) => e.type)
analyze(types, time) ==
  IF time.present /\ ~time.now.valid THEN Throws("RangeError")
  ELSE Returns(
    [toneColor |-> [h |-> toneColorH(types), s |-> toneColorS(types),
                    l |-> toneColorL(types)],
     spread |-> spread(types),
     animation |-> [sway |-> sway(types),
                    breathAmplitude |-> breathAmplitude(types),
                    bloomSpeed |-> bloomSpeed(types)],
     weather |-> weather(types, time),
     annotated_at |-> IF time.present THEN DateToISOString(time.now)
                                      ELSE Omitted])

(***************************************************************************)
(* The flower functions on their own: user code holds an emotion list and  *)
(* an optional time source and applies annotate or analyze to them.        *)
(***************************************************************************)
\* longest emotion list
MaxEmotions == 3

\* a label that is none of the canonical five
OtherLabel == "other"
Labels == { Joy, Sadness, Anger, Anxiety, Calm, OtherLabel }
EmotionLists == UNION { [1..n -> Labels] : n \in 0..MaxEmotions }

\* local hours on both sides of each threshold of annotate and analyze
FlowerHours == { 4, 5, 10, 11, 16, 17, 21, 22 }
FlowerTimes ==
  { NoTime, TimeOf(InvalidDate) }
  \cup { TimeOf(LocalDate(MakeDay(2024, 1, 29), MakeTime(hr, 30, 0, 0))) :
           hr \in FlowerHours }

Called(op, types, time, out) == [op |-> op, types |-> types, time |-> time, out |-> out]

InitFlower ==
  /\ config = InitialConfig
  /\ adapters = Loaded.adapters
  /\ timers = Loaded.timers
  /\ nextTimer = Loaded.nextTimer
  /\ timeMap = Loaded.timeMap
  /\ disposers = Loaded.disposers
  /\ wall = 0
  /\ subs = << >>
  /\ \E types \in EmotionLists, time \in FlowerTimes :
       last = Called("arguments", types, time, Returns(Omitted))
  /\ nConfigure = 0
  /\ nCreate = 0

call(op, out) ==
  /\ last' = Called(op, last.types, last.time, out)
  /\ UNCHANGED << config, timeMap, disposers, adapters, timers, nextTimer,
                  wall, subs, nConfigure, nCreate >>

NextFlower ==
  \/ call("annotate", annotate(last.types, last.time))
  \/ call("analyze", analyze(last.types, last.time))

SpecFlower == InitFlower /\ [][NextFlower]_vars

\* the first label of a priority order that an emotion list contains
RECURSIVE FirstPresent(_, _)
FirstPresent(order, types) ==
  IF order = << >> THEN "none"
  ELSE IF \E i \in 1..Len(types) : types[i] = Head(order) THEN Head(order)
  ELSE FirstPresent(Tail(order), types)

\* the order joy > sadness > anger > anxiety > calm
Priority == << Joy, Sadness, Anger, Anxiety, Calm >>

\* the tone of a list that holds one label only, and the default tone
ToneRow(label) ==
  CASE label = Joy -> [h |-> 50, s |-> 70, l |-> 60]
    [] label = Sadness -> [h |-> 220, s |-> 45, l |-> 45]
    [] label = Anger -> [h |-> 0, s |-> 70, l |-> 45]
    [] label = Anxiety -> [h |-> 200, s |-> 55, l |-> 55]
    [] label = Calm -> [h |-> 120, s |-> 35, l |-> 70]
    [] OTHER -> [h |-> 200, s |-> 50, l |-> 55]

Analyzed == last.op = "analyze" /\ ~last.out.threw

(***************************************************************************)
(* C19 as stated. For every emotion list, analyze's hue, saturation and    *)
(* lightness are all three the table row of the highest-priority canonical *)
(* label present, in the order joy > sadness > anger > anxiety > calm, or  *)
(* the default (200, 0.5, 0.55) when none is present.                      *)
(***************************************************************************)
C19_ToneOfOneLabel ==
  Analyzed => last.out.value.toneColor = ToneRow(FirstPresent(Priority, last.types))

(***************************************************************************)
(* C19 amended. Each of hue, saturation and lightness is the table value   *)
(* of the first label present in its own order: hue joy > sadness > anger  *)
(* > anxiety > calm; saturation joy > anger > sadness > anxiety > calm;    *)
(* lightness calm > joy > sadness > anger > anxiety; the default (200,     *)
(* 0.5, 0.55) when no canonical label is present.  The three come from     *)
(* one row when one canonical label is present.                            *)
(***************************************************************************)
C19_TonePerChannel ==
  Analyzed
    => LET tone == last.out.value.toneColor
       IN /\ tone.h = ToneRow(FirstPresent(Priority, last.types)).h
          /\ tone.s = ToneRow(FirstPresent(
                        << Joy, Anger, Sadness, Anxiety, Calm >>, last.types)).s
          /\ tone.l = ToneRow(FirstPresent(
                        << Calm, Joy, Sadness, Anger, Anxiety >>, last.types)).l

\* analyze was applied to a list that holds joy and calm
C19_Witness ==
  /\ Analyzed
  /\ \E i \in 1..Len(last.types) : last.types[i] = Joy
  /\ \E i \in 1..Len(last.types) : last.types[i] = Calm

\* the lookup tables of the animation values, and their defaults
SwayRow(label) ==
  CASE label = Anxiety -> 80 [] label = Calm -> 20 [] OTHER -> 50
BreathRow(label) ==
  CASE label = Joy -> 20 [] label = Sadness -> 10 [] OTHER -> 15
BloomRow(label) ==
  CASE label = Joy -> 100 [] label = Sadness -> 60 [] label = Anger -> 80
    [] label = Anxiety -> 70 [] OTHER -> 90

(***************************************************************************)
(* C20 as stated. For every emotion list, each of sway, breathAmplitude    *)
(* and bloomSpeed is the value of the first label present when the labels  *)
(* of its own table are tried in the order joy > sadness > anger > anxiety *)
(* > calm, and the table's default when none of them is present.           *)
(***************************************************************************)
C20_AnimationByPriority ==
  Analyzed
    => LET anim == last.out.value.animation
       IN /\ anim.sway = SwayRow(FirstPresent(<< Anxiety, Calm >>, last.types))
          /\ anim.breathAmplitude
               = BreathRow(FirstPresent(<< Joy, Sadness >>, last.types))
          /\ anim.bloomSpeed
               = BloomRow(FirstPresent(<< Joy, Sadness, Anger, Anxiety >>, last.types))

(***************************************************************************)
(* C20 amended. sway tries anxiety then calm, breathAmplitude tries joy    *)
(* then sadness, and bloomSpeed tries joy > sadness > anxiety > anger      *)
(* (anxiety before anger); each is its table's default when none of its    *)
(* labels is present.                                                      *)
(***************************************************************************)
C20_AnimationOwnOrder ==
  Analyzed
    => LET anim == last.out.value.animation
       IN /\ anim.sway = SwayRow(FirstPresent(<< Anxiety, Calm >>, last.types))
          /\ anim.breathAmplitude
               = BreathRow(FirstPresent(<< Joy, Sadness >>, last.types))
          /\ anim.bloomSpeed
               = BloomRow(FirstPresent(<< Joy, Sadness, Anxiety, Anger >>, last.types))

\* analyze was applied to a list that holds anger and anxiety
C20_Witness ==
  /\ Analyzed
  /\ \E i \in 1..Len(last.types) : last.types[i] = Anger
  /\ \E i \in 1..Len(last.types) : last.types[i] = Anxiety

(***************************************************************************)
(* inputCore.ts: the MashOS facade (lines 112-168).  Each operation looks  *)
(* up the feature's adapter in timeMap and hands it, or the instant it     *)
(* reads, to the core function.                                            *)
(***************************************************************************)
\* timeMap[f].now() as a time value
adapterNow(f) == baseNow(adapters[timeMap[f]].cfg, wall)

\* { time: timeMap[f] } as the core functions see it
timeArg(f) ==
  IF timeMap[f] = NoAdapter THEN NoTime ELSE TimeOf(DateOfTime(adapterNow(f)))

\* where an operation took its instant from
ReadOf(f) == IF timeMap[f] = NoAdapter THEN "none" ELSE "adapter"

\* (mutant) the myweb operations without the wall-clock fallback: the
\* absent adapter yields an Invalid Date
mywebReadNoFallback ==
  IF timeMap["myweb"] # NoAdapter
    THEN [read |-> "adapter", t |-> adapterNow("myweb")]
    ELSE [read |-> "wall", t |-> NaNTime]

\* const d = timeMap.myweb?.now() ?? new Date()
mywebRead ==
  IF timeMap["myweb"] # NoAdapter
    THEN [read |-> "adapter", t |-> adapterNow("myweb")]
    ELSE [read |-> "wall", t |-> wall]

\* what a facade operation did: the feature whose adapter it used, where
\* its instant came from, the instant (a time value), and its result
Facade(op, f, read, t, args, out) ==
  [op |-> op, f |-> f, read |-> read, t |-> t, args |-> args, out |-> out]

facade(op, f, read, t, args, out) ==
  /\ last' = Facade(op, f, read, t, args, out)
  /\ UNCHANGED << config, timeMap, disposers, adapters, timers, nextTimer,
                  wall, subs, nConfigure, nCreate >>

\* MashOS.input.buildEntry(payload)
inputBuildEntry(payload) ==
  facade("input.buildEntry", "input", ReadOf("input"),
         IF timeMap["input"] = NoAdapter THEN NaNTime ELSE adapterNow("input"),
         payload, buildEntry(payload, timeArg("input")))

\* MashOS.myweb.*: one action for each operation
mywebIsWeeklyReportNow ==
  facade("myweb.isWeeklyReportNow", "myweb", mywebRead.read, mywebRead.t, << >>,
         Returns(isWeeklyReportTrigger(DateOfTime(mywebRead.t))))
mywebIsMonthlyReportNow ==
  facade("myweb.isMonthlyReportNow", "myweb", mywebRead.read, mywebRead.t, << >>,
         Returns(isMonthlyReportTrigger(DateOfTime(mywebRead.t))))
mywebCompletedWeeklyRangeForNow ==
  facade("myweb.completedWeeklyRangeForNow", "myweb", mywebRead.read, mywebRead.t,
         << >>, Returns(getCompletedWeeklyRangeFrom(DateOfTime(mywebRead.t))))
mywebCompletedMonthlyRangeForNow ==
  facade("myweb.completedMonthlyRangeForNow", "myweb", mywebRead.read, mywebRead.t,
         << >>, Returns(getCompletedMonthlyRangeFrom(DateOfTime(mywebRead.t))))
mywebCurrentWeeklyRange ==
  facade("myweb.currentWeeklyRange", "myweb", mywebRead.read, mywebRead.t, << >>,
         Returns(getCurrentWeeklyRangeContaining(DateOfTime(mywebRead.t))))
mywebCurrentMonthlyRange ==
  facade("myweb.currentMonthlyRange", "myweb", mywebRead.read, mywebRead.t, << >>,
         Returns(getCurrentMonthlyRangeContaining(DateOfTime(mywebRead.t))))

\* MashOS.flower.annotate(data) and the deprecated MashOS.mymodel.annotate
flowerAnnotate(ns, data) ==
  facade(ns \o ".annotate", "flower", ReadOf("flower"),
         IF timeMap["flower"] = NoAdapter THEN NaNTime ELSE adapterNow("flower"),
         data, annotate(data, timeArg("flower")))

\* MashOS.flower.analyze(emotions) and the deprecated MashOS.mymodel.analyze
flowerAnalyze(ns, types) ==
  facade(ns \o ".analyze", "flower", ReadOf("flower"),
         IF timeMap["flower"] = NoAdapter THEN NaNTime ELSE adapterNow("flower"),
         types, analyze(types, timeArg("flower")))

\* TimeConfig literals of the configure calls made before the facade is
\* used: each mode, a frozen instant in each mode, an unparseable string
\* and an Invalid Date
FacadeInputs ==
  { TC("snapshot", AbsentMs, Undefined),
    TC("off", AbsentMs, Undefined),
    TC("off", AbsentMs, DateObj(0)),
    TC("interval", 1000, Num(0)),
    TC("snapshot", AbsentMs, Str("not-a-date")),
    TC("interval", AbsentMs, DateObj(NaNTime)) }

\* arguments of those configure calls: {}, a default entry, or one feature
\* switched off
FacadePartials ==
  { NoPartial }
  \cup { [hasTime |-> TRUE, default |-> d, perFeature |-> NoPerFeature] :
           d \in FacadeInputs }
  \cup { [hasTime |-> TRUE, default |-> NoEntry,
          perFeature |-> OnlyKey(k, TC("off", AbsentMs, Undefined))] :
           k \in Features }

\* emotion lists and payloads handed to the facade
FacadeLists == { << >>, << Joy, Calm >> }

NextFacade ==
  \/ \E next \in FacadePartials : configure(next)
  \/ advance
  \/ \E payload \in FacadeLists : inputBuildEntry(payload)
  \/ mywebIsWeeklyReportNow
  \/ mywebIsMonthlyReportNow
  \/ mywebCompletedWeeklyRangeForNow
  \/ mywebCompletedMonthlyRangeForNow
  \/ mywebCurrentWeeklyRange
  \/ mywebCurrentMonthlyRange
  \/ \E ns \in { "flower", "mymodel" }, data \in FacadeLists : flowerAnnotate(ns, data)
  \/ \E ns \in { "flower", "mymodel" }, types \in FacadeLists : flowerAnalyze(ns, types)

SpecFacade == Init /\ [][NextFacade]_vars

FacadeOps ==
  { "input.buildEntry", "myweb.isWeeklyReportNow", "myweb.isMonthlyReportNow",
    "myweb.completedWeeklyRangeForNow", "myweb.completedMonthlyRangeForNow",
    "myweb.currentWeeklyRange", "myweb.currentMonthlyRange",
    "flower.annotate", "flower.analyze", "mymodel.annotate", "mymodel.analyze" }

\* the last step was a facade operation
ByFacade == last.op \in FacadeOps

\* the result of the core function behind a facade operation when it is
\* handed the time source time
CoreResult(op, args, time) ==
  CASE op = "input.buildEntry" -> buildEntry(args, time)
    [] op = "myweb.isWeeklyReportNow" -> Returns(isWeeklyReportTrigger(time.now))
    [] op = "myweb.isMonthlyReportNow" -> Returns(isMonthlyReportTrigger(time.now))
    [] op = "myweb.completedWeeklyRangeForNow"
         -> Returns(getCompletedWeeklyRangeFrom(time.now))
    [] op = "myweb.completedMonthlyRangeForNow"
         -> Returns(getCompletedMonthlyRangeFrom(time.now))
    [] op = "myweb.currentWeeklyRange"
         -> Returns(getCurrentWeeklyRangeContaining(time.now))
    [] op = "myweb.currentMonthlyRange"
         -> Returns(getCurrentMonthlyRangeContaining(time.now))
    [] op \in { "flower.annotate", "mymodel.annotate" } -> annotate(args, time)
    [] op \in { "flower.analyze", "mymodel.analyze" } -> analyze(args, time)

\* the effective TimeConfig of the feature the last facade operation served
ServedConfig == resolveTimeConfig(config, last.f)

(***************************************************************************)
(* C12 as stated. Whenever a feature's effective mode is off, the feature  *)
(* has no adapter, no facade operation of the feature fails, and every     *)
(* time-dependent output of its facade operations (input.buildEntry, the   *)
(* myweb operations, flower.annotate, flower.analyze) is the one computed  *)
(* from a direct wall-clock read.                                          *)
(***************************************************************************)
C12_OffReadsWallClock ==
  /\ \A f \in Features :
       resolveTimeConfig(config, f).mode = "off" => timeMap[f] = NoAdapter
  /\ (ByFacade /\ ServedConfig.mode = "off")
       => /\ ~last.out.threw
          /\ last.out = CoreResult(last.op, last.args, TimeOf(DateOfTime(wall)))

(***************************************************************************)
(* C12 amended. Whenever a feature's effective mode is off, the feature    *)
(* has no adapter and no facade operation of the feature fails; the myweb  *)
(* operations compute their result from a direct wall-clock read, while    *)
(* input.buildEntry leaves created_at out, flower.annotate leaves timeBand *)
(* and annotated_at out, and flower.analyze gives weather cloudy and       *)
(* leaves annotated_at out: they read no clock at all.                     *)
(***************************************************************************)
C12_OffWallClockOrOmitted ==
  /\ \A f \in Features :
       resolveTimeConfig(config, f).mode = "off" => timeMap[f] = NoAdapter
  /\ (ByFacade /\ ServedConfig.mode = "off")
       => /\ ~last.out.threw
          /\ last.f = "myweb"
               => /\ last.read = "wall"
                  /\ last.t = wall
                  /\ last.out = CoreResult(last.op, last.args,
                                           TimeOf(DateOfTime(wall)))
          /\ last.f # "myweb" => last.read = "none"
          /\ last.op = "input.buildEntry"
               => last.out.value.created_at = Omitted
          /\ last.op \in { "flower.annotate", "mymodel.annotate" }
               => /\ last.out.value.timeBand = Omitted
                  /\ last.out.value.annotated_at = Omitted
          /\ last.op \in { "flower.analyze", "mymodel.analyze" }
               => /\ last.out.value.weather = "cloudy"
                  /\ last.out.value.annotated_at = Omitted

\* a myweb range was asked for while myweb was off, frozen to another
\* instant than the wall clock read
C12_Witness ==
  /\ last.op = "myweb.completedWeeklyRangeForNow"
  /\ ServedConfig.mode = "off"
  /\ FrozenValid(ServedConfig.freezeTo)
  /\ wall # Denoted(ServedConfig.freezeTo)

(***************************************************************************)
(* C13. For every mode (off, snapshot, interval), when a feature's         *)
(* effective TimeConfig has a freezeTo that denotes an instant, every time *)
(* read made for that feature by a facade operation yields the frozen      *)
(* instant and never the wall clock.                                       *)
(***************************************************************************)
C13_FrozenInEveryMode ==
  (ByFacade /\ FrozenValid(ServedConfig.freezeTo) /\ last.read # "none")
    => /\ last.read = "adapter"
       /\ last.t = Denoted(ServedConfig.freezeTo)
       /\ last.out = CoreResult(last.op, last.args,
                                TimeOf(DateOfTime(Denoted(ServedConfig.freezeTo))))

\* freezeTo is set to a value that denotes no instant
FrozenInvalid(fz) == FreezeSet(fz) /\ Denoted(fz) = NaNTime

(***************************************************************************)
(* C14. When a feature's freezeTo is an invalid or unparseable value,      *)
(* every time read for that feature yields the invalid-instant marker as a *)
(* value: the facade operation that consumes it raises no error and does   *)
(* not read the wall clock.                                                *)
(***************************************************************************)
C14_InvalidFreezePropagates ==
  (ByFacade /\ FrozenInvalid(ServedConfig.freezeTo))
    => /\ ~last.out.threw
       /\ last.read = "adapter"
       /\ last.t = NaNTime

\* the keys of a per-feature map that are no recognized feature
UnknownKeys == Keys \ Features

\* a partial without the entries of its unrecognized keys
WithoutUnknown(next) ==
  [next EXCEPT !.perFeature =
     [k \in Keys |-> IF k \in Features THEN next.perFeature[k] ELSE NoEntry]]

(***************************************************************************)
(* C15. A configure call whose per-feature map carries a key that is none  *)
(* of input, myweb, flower completes, and the key makes no difference to   *)
(* any recognized feature: effective TimeConfig, adapter presence and      *)
(* timer count of each feature are what the same call without that key     *)
(* gives; the key's entry is kept in the stored map only.                  *)
(***************************************************************************)
C15_UnknownKeyStep ==
  (last'.op = "configure"
     /\ \E k \in UnknownKeys : last'.next.perFeature[k] # NoEntry)
    => LET merged == mergeConfig(config, WithoutUnknown(last'.next))
           r == rebuildTimeAdapters(Registry, merged)
       IN /\ nConfigure' = nConfigure + 1
          /\ \A f \in Features :
               /\ resolveTimeConfig(config', f) = resolveTimeConfig(merged, f)
               /\ (timeMap'[f] = NoAdapter) <=> (r.timeMap[f] = NoAdapter)
               /\ Cardinality({ tm \in timers' : tm.adapter = timeMap'[f] })
                    = Cardinality({ tm \in r.timers : tm.adapter = r.timeMap[f] })
          /\ Cardinality(timers') = Cardinality(r.timers)
          /\ \A f \in Features : config'.perFeature[f] = merged.perFeature[f]

C21_Weather ==
  Analyzed
    => LET hasJoy == \E i \in 1..Len(last.types) : last.types[i] = Joy
           hasSadness == \E i \in 1..Len(last.types) : last.types[i] = Sadness
           hour == last.time.now.ms \div (60 * 60 * 1000)
       IN last.out.value.weather =
            (IF ~last.time.present THEN "cloudy"
             ELSE IF hour < 5 \/ hour >= 22 THEN "night"
             ELSE IF hasJoy THEN "sunny"
             ELSE IF hasSadness THEN "rainy"
             ELSE "cloudy")

\* analyze was given joy at 22 o'clock local time
C21_Witness ==
  /\ Analyzed
  /\ last.time.present
  /\ last.time.now.ms \div (60 * 60 * 1000) = 22
  /\ \E i \in 1..Len(last.types) : last.types[i] = Joy

(***************************************************************************)
(* C22. After any sequence of configure calls, input.buildEntry returns an *)
(* entry, and the entry carries created_at if and only if the input        *)
(* feature has an adapter now (effective mode not off); when present,      *)
(* created_at is the ISO-8601 rendering of that adapter's now().           *)
(***************************************************************************)
C22_CreatedAtIffAdapter ==
  last.op = "input.buildEntry"
    => /\ ~last.out.threw
       /\ (last.out.value.created_at # Omitted) <=> (timeMap["input"] # NoAdapter)
       /\ (timeMap["input"] # NoAdapter) <=> (ServedConfig.mode # "off")
       /\ timeMap["input"] # NoAdapter
            => last.out.value.created_at
                 = DateToISOString(DateOfTime(adapterNow("input")))

\* the callbacks registered on a registry adapter that the registry no
\* longer holds
Orphaned ==
  { h \in 1..Len(subs) :
      /\ adapters[subs[h].a].owner = "registry"
      /\ subs[h].a \notin Held
      /\ subs[h].cb \in ListenerSet(subs[h].a) }

(***************************************************************************)
(* C23. Subscriptions do not carry over a reconfiguration: after a         *)
(* configure call every adapter the registry holds starts without          *)
(* listeners and the adapters held before own no timer, so a callback      *)
(* subscribed on a feature's previous interval adapter gets no further     *)
(* tick, also when the feature stays in interval mode with the same        *)
(* TimeConfig; a tick reaches only callbacks subscribed on the adapter     *)
(* that is held now.                                                       *)
(***************************************************************************)
C23_State ==
  /\ \A a \in 1..Len(adapters) :
       (adapters[a].owner = "registry" /\ a \notin Held) => TimersOf(a) = {}
  /\ last.op = "tick"
       => /\ last.a \in Held
          /\ \A i \in 1..Len(last.calls) :
               \E h \in 1..Len(subs) :
                 subs[h].a = last.a /\ subs[h].cb = last.calls[i].cb
  /\ last.op = "configure"
       => \A f \in Features :
            timeMap[f] # NoAdapter => adapters[timeMap[f]].listeners = << >>

C23_Step ==
  last'.op = "configure"
    => \A f \in Features :
         timeMap[f] # NoAdapter
           => /\ timeMap'[f] # timeMap[f]
              /\ { tm \in timers' : tm.adapter = timeMap[f] } = {}

C23_NoCarryOver == []C23_State /\ [][C23_Step]_vars

\* the new adapter of a feature ticked and called nobody, while a callback
\* is still registered on the feature's previous adapter of the same
\* TimeConfig
C23_Witness ==
  /\ last.op = "tick"
  /\ last.calls = << >>
  /\ \E h \in Orphaned : adapters[subs[h].a].cfg = adapters[last.a].cfg

\* no element occurs twice in a sequence
NoDuplicates(q) == \A i, j \in 1..Len(q) : q[i] = q[j] => i = j

\* what C24 says of the listeners, of subscribe and of a tick
C24_SetState ==
  /\ \A a \in 1..Len(adapters) : NoDuplicates(adapters[a].listeners)
  /\ last.op = "subscribe"
       => /\ Len(last.calls) = 1
          /\ last.calls[1].cb = last.cb
  /\ last.op = "tick"
       => /\ NoDuplicates([i \in 1..Len(last.calls) |-> last.calls[i].cb])
          /\ CalledCbs(last.calls) = ListenerSet(last.a)

\* a subscribe call of a callback that is registered already notifies it
\* and leaves the listeners as they are; a call of any handle of a callback
\* takes the callback out of the listeners
C24_SetStep ==
  /\ (last'.op = "subscribe" /\ last'.cb \in ListenerSet(last'.a))
       => adapters'[last'.a].listeners = adapters[last'.a].listeners
  /\ last'.op = "unsubscribe"
       => /\ last'.cb \notin { adapters'[last'.a].listeners[i] :
                                 i \in 1..Len(adapters'[last'.a].listeners) }
          /\ timers' = timers

(***************************************************************************)
(* C24 as stated. The listeners of an interval adapter are a set keyed by  *)
(* callback identity: subscribing the same callback twice gives two        *)
(* initial notifications and one registration, each tick calls it once, a  *)
(* single call of either handle ends its tick notifications, and calling   *)
(* an unsubscribe handle again is a no-op that changes nothing.            *)
(***************************************************************************)
C24_AgainIsNoOpStep ==
  /\ C24_SetStep
  /\ (last'.op = "unsubscribe" /\ subs[last'.h].called)
       => adapters' = adapters /\ timers' = timers

\* C24 as stated: set semantics of the listeners, and a repeated call of an
\* unsubscribe handle changes nothing
C24_SetAndNoOpAgain == []C24_SetState /\ [][C24_AgainIsNoOpStep]_vars

(***************************************************************************)
(* C24 amended. As stated, except for the last part: calling an            *)
(* unsubscribe handle again changes nothing as long as its callback has    *)
(* not been subscribed again on the adapter since; if it has, the call     *)
(* removes that new registration (and nothing else).                       *)
(***************************************************************************)
C24_AgainStep ==
  /\ C24_SetStep
  /\ (last'.op = "unsubscribe" /\ subs[last'.h].called)
       => /\ last'.cb \notin ListenerSet(last'.a) => adapters' = adapters
          /\ last'.cb \in ListenerSet(last'.a)
               => \E j \in 1..Len(subs) :
                    /\ j > last'.h
                    /\ subs[j].a = last'.a /\ subs[j].cb = last'.cb
                    /\ ~subs[j].called
          /\ \A b \in 1..Len(adapters) : b # last'.a => adapters'[b] = adapters[b]
          /\ adapters'[last'.a].listeners
               = SelectSeq(adapters[last'.a].listeners, LAMBDA x : x # last'.cb)
          /\ timers' = timers

\* C24 amended: set semantics of the listeners, and a repeated call of an
\* unsubscribe handle removes at most a later registration of its callback
C24_SetKeyedByCallback == []C24_SetState /\ [][C24_AgainStep]_vars

\* a callback was subscribed twice on a running adapter and one handle was
\* called: the callback is gone though the other handle was never called
C24_Witness ==
  /\ last.op = "unsubscribe"
  /\ TimersOf(last.a) # {}
  /\ last.cb \notin ListenerSet(last.a)
  /\ \E j \in 1..Len(subs) :
       /\ j # last.h
       /\ subs[j].a = last.a /\ subs[j].cb = last.cb
       /\ ~subs[j].called

====
